---- MODULE Spec2Model ----
(***************************************************************************)
(* Model of pkg/providers/launchtemplate/launchtemplate.go: the launch     *)
(* template provider (GetTemplate, getStaticParameters,                    *)
(* createLaunchTemplate), the Vnet label resolver (getVnetLabelValues) and *)
(* the tag merger (mergeTags).                                             *)
(*                                                                         *)
(* Go strings that the code takes apart (subnet identifiers, tag keys) are *)
(* sequences of one-character strings; a Go map is a function with a       *)
(* finite domain; a Go pointer is a set with at most one element ({} is    *)
(* nil).  A run-time panic is recorded as an outcome, never skipped.       *)
(***************************************************************************)
EXTENDS Integers, Sequences, FiniteSets, TLC

VARIABLES
    nodeClass,          \* *v1alpha2.AKSNodeClass: [VnetSubnetID, Tags]
    nodeClaim,          \* *corev1beta1.NodeClaim: [Labels]
    instanceType,       \* *cloudprovider.InstanceType: [Requirements]
    additionalLabels,   \* map[string]string
    env,                \* the process environment read by os.Getenv
    ctxOptions,         \* options.FromContext(ctx): [ClusterName]
    pc,                 \* position of the running call
    staticParameters,   \* *parameters.StaticParameters built by GetTemplate
    templateParameters, \* *parameters.Parameters returned by the resolver
    userData,           \* the rendered boot script
    calls,              \* collaborators invoked so far, in order
    ret,                \* what GetTemplate returned: [template, err]
    vnetOut,            \* outcome of a direct getVnetLabelValues call
    tags,               \* the variadic argument of mergeTags
    result,             \* outcome of the latest mergeTags(tags...) call
    previous,           \* outcome of the mergeTags(tags...) call before it
    foldAcc,            \* sources merged one by one, so far
    foldIdx             \* number of sources folded into foldAcc

vars == <<nodeClass, nodeClaim, instanceType, additionalLabels, env, ctxOptions,
          pc, staticParameters, templateParameters, userData, calls, ret,
          vnetOut, tags, result, previous, foldAcc, foldIdx>>

requestVars == <<nodeClass, nodeClaim, instanceType, additionalLabels, env, ctxOptions>>
templateVars == <<staticParameters, templateParameters, userData, calls, ret>>
mergeVars == <<tags, result, previous, foldAcc, foldIdx>>

----------------------------------------------------------------------------
(* Bounds of the model *)

\* longest subnet identifier explored, in characters
MaxIdLen == 4
\* largest number of sources handed to mergeTags
MaxSources == 2

----------------------------------------------------------------------------
(* Go values *)

Nil == {}
Ptr(x) == {x}
Deref(p) == CHOOSE x \in p : TRUE

EmptyMap == <<>>

Range(s) == {s[i] : i \in DOMAIN s}

\* every string of at most n characters over the alphabet
StringsUpTo(alphabet, n) == UNION {[1..k -> alphabet] : k \in 0..n}

\* the enumerations of a finite set: the orders a Go range over a map can take
Orders(S) == {o \in [1..Cardinality(S) -> S] : Range(o) = S}

----------------------------------------------------------------------------
(* Constants of the package *)

karpenterManagedTagKey ==
    <<"k","a","r","p","e","n","t","e","r",".","a","z","u","r","e",".","c","o","m",
      "/","c","l","u","s","t","e","r">>

vnetDataPlaneLabel == "kubernetes.azure.com/ebpf-dataplane"
vnetNetworkNameLabel == "kubernetes.azure.com/network-name"
vnetSubnetNameLabel == "kubernetes.azure.com/network-subnet"
vnetSubscriptionIDLabel == "kubernetes.azure.com/network-subscription"
vnetGUIDLabel == "kubernetes.azure.com/nodenetwork-vnetguid"
vnetPodNetworkTypeLabel == "kubernetes.azure.com/podnetwork-type"

ciliumNetworkPlugin == <<"c","i","l","i","u","m">>
overlayNetworkType == <<"o","v","e","r","l","a","y">>

VnetLabelKeys ==
    {vnetDataPlaneLabel, vnetNetworkNameLabel, vnetSubnetNameLabel,
     vnetSubscriptionIDLabel, vnetGUIDLabel, vnetPodNetworkTypeLabel}

\* run-time panics of the Go runtime
NilDereference == "invalid memory address or nil pointer dereference"
IndexOutOfRange == "index out of range"

\* outcome of a call: a returned value, or a panic that unwinds the caller
Returned(v) == [panic |-> "", err |-> "", value |-> v]
Panicked(p) == [panic |-> p, err |-> "", value |-> EmptyMap]
NotCalled == [panic |-> "", err |-> "not called", value |-> EmptyMap]

----------------------------------------------------------------------------
(* Library functions, computed as the libraries compute them *)

\* strings.Split(s, "/"): the substrings between the separators, 1 + count("/")
RECURSIVE Split(_)
Split(s) ==
    IF \A i \in DOMAIN s : s[i] # "/"
    THEN <<s>>
    ELSE LET i == CHOOSE j \in DOMAIN s :
                     s[j] = "/" /\ \A k \in 1..(j - 1) : s[k] # "/"
         IN <<SubSeq(s, 1, i - 1)>> \o Split(SubSeq(s, i + 1, Len(s)))

\* variant: the key is passed through unsanitized
ReplaceAllSkipped(key) == key

\* strings.ReplaceAll(key, "/", "_")
ReplaceAll(key) == [i \in DOMAIN key |-> IF key[i] = "/" THEN "_" ELSE key[i]]

\* lo.Ternary(condition, ifOutput, elseOutput); both outputs are already evaluated
Ternary(condition, ifOutput, elseOutput) == IF condition THEN ifOutput ELSE elseOutput

\* os.Getenv(key): "" when the variable is unset
Getenv(e, key) == e[key]

\* lo.Assign(maps...): later maps overwrite earlier ones
RECURSIVE Assign(_)
Assign(maps) ==
    IF maps = <<>> THEN EmptyMap
    ELSE LET out == Assign(SubSeq(maps, 1, Len(maps) - 1))
             m == maps[Len(maps)]
         IN [k \in (DOMAIN out) \cup (DOMAIN m) |->
                IF k \in DOMAIN m THEN m[k] ELSE out[k]]

\* Go slice indexing, zero-based: s[i] panics unless 0 <= i < len(s)
InRange(s, i) == 0 <= i /\ i < Len(s)
At(s, i) == s[i + 1]

----------------------------------------------------------------------------
(* getVnetLabelValues *)

\* variant: the network name is taken one segment too late (n-2)
getVnetLabelValuesOffByOne(nc, e) ==
    IF nc.VnetSubnetID = Nil THEN Panicked(NilDereference)
    ELSE LET vnetSubnetParts == Split(Deref(nc.VnetSubnetID))
             n == Len(vnetSubnetParts)
         IN IF n < 3 THEN Panicked(IndexOutOfRange)
            ELSE Returned(
                   (vnetDataPlaneLabel :> ciliumNetworkPlugin)
                   @@ (vnetNetworkNameLabel :> At(vnetSubnetParts, n - 2))
                   @@ (vnetSubnetNameLabel :> At(vnetSubnetParts, n - 1))
                   @@ (vnetSubscriptionIDLabel :> At(vnetSubnetParts, 2))
                   @@ (vnetGUIDLabel :> Getenv(e, "AZURE_VNET_GUID"))
                   @@ (vnetPodNetworkTypeLabel :> overlayNetworkType))

\* variant: the length of the split is validated and a short identifier is
\* answered with an error value instead of the out-of-range index
getVnetLabelValuesValidated(nc, e) ==
    IF nc.VnetSubnetID = Nil THEN Panicked(NilDereference)
    ELSE LET vnetSubnetParts == Split(Deref(nc.VnetSubnetID))
             n == Len(vnetSubnetParts)
         IN IF n < 3
            THEN [panic |-> "", err |-> "ConfigurationError", value |-> EmptyMap]
            ELSE Returned(
                   (vnetDataPlaneLabel :> ciliumNetworkPlugin)
                   @@ (vnetNetworkNameLabel :> At(vnetSubnetParts, n - 3))
                   @@ (vnetSubnetNameLabel :> At(vnetSubnetParts, n - 1))
                   @@ (vnetSubscriptionIDLabel :> At(vnetSubnetParts, 2))
                   @@ (vnetGUIDLabel :> Getenv(e, "AZURE_VNET_GUID"))
                   @@ (vnetPodNetworkTypeLabel :> overlayNetworkType))

getVnetLabelValues(nc, e) ==
    IF nc.VnetSubnetID = Nil
    THEN \* *nodeClass.Spec.VnetSubnetID is an argument of lo.Ternary: it is
         \* evaluated before the call, whatever the condition
         Panicked(NilDereference)
    ELSE LET vnetSubnetID == Ternary(nc.VnetSubnetID # Nil, Deref(nc.VnetSubnetID),
                                     Getenv(e, "AZURE_SUBNET_ID"))
             vnetSubnetParts == Split(vnetSubnetID)
             n == Len(vnetSubnetParts)
         IN IF ~InRange(vnetSubnetParts, n - 3) \/ ~InRange(vnetSubnetParts, n - 1)
               \/ ~InRange(vnetSubnetParts, 2)
            THEN Panicked(IndexOutOfRange)
            ELSE Returned(
                   (vnetDataPlaneLabel :> ciliumNetworkPlugin)
                   @@ (vnetNetworkNameLabel :> At(vnetSubnetParts, n - 3))
                   @@ (vnetSubnetNameLabel :> At(vnetSubnetParts, n - 1))
                   @@ (vnetSubscriptionIDLabel :> At(vnetSubnetParts, 2))
                   @@ (vnetGUIDLabel :> Getenv(e, "AZURE_VNET_GUID"))
                   @@ (vnetPodNetworkTypeLabel :> overlayNetworkType))

----------------------------------------------------------------------------
(* mergeTags *)

\* to.StringPtr(value): a pointer to a fresh copy of value
StringPtr(value) == Ptr(value)

\* lo.MapEntries(in, iteratee) with the iteratee of mergeTags:
\*   result := map; for k1 := range in { k2, v2 := iteratee(k1, in[k1]); result[k2] = v2 }
\* order is the order in which the range statement visits the keys of in.
RECURSIVE MapEntries(_, _)
MapEntries(in, order) ==
    IF order = <<>> THEN EmptyMap
    ELSE LET out == MapEntries(in, SubSeq(order, 1, Len(order) - 1))
             k1 == order[Len(order)]
             k2 == ReplaceAll(k1)
             v2 == StringPtr(in[k1])
         IN [k \in (DOMAIN out) \cup {k2} |-> IF k = k2 THEN v2 ELSE out[k]]

\* the orders a Go range statement can visit the keys of m in: the language
\* leaves the iteration order of a map unspecified
RangeOrders(m) == Orders(DOMAIN m)

\* mergeTags(tags...), when the range over the merged map takes this order
mergeTags(tagSeq, order) == MapEntries(Assign(tagSeq), order)

----------------------------------------------------------------------------
(* getStaticParameters *)

LabelArchStable == "kubernetes.io/arch"
ArchitectureAmd64 == "amd64"
ArchitectureArm64 == "arm64"

\* scheduling.Requirement: the values it allows are `values`, or, with
\* complement set, every value outside `values` (In / NotIn / Exists / DoesNotExist)
NewRequirementIn(values) == [complement |-> FALSE, values |-> values]
Has(requirement, value) == requirement.complement # (value \in requirement.values)

\* scheduling.NewRequirements(scheduling.NewRequirement(key, In, values...))
NewRequirements(key, values) == (key :> NewRequirementIn(values))

\* Requirements.Compatible(incoming) for an incoming In-requirement on a
\* well-known label: nil ("") unless a key both sides define has no value both
\* allow; a key the receiver does not define is allowed
Compatible(requirements, incoming) ==
    IF \E key \in (DOMAIN requirements) \cap (DOMAIN incoming) :
           {v \in incoming[key].values : Has(requirements[key], v)} = {}
    THEN "incompatible requirements"
    ELSE ""

\* variant: arm64 is chosen by an equality test on the advertised values
getStaticParametersArchEquality(it, nc, labels, e, opts) ==
    LET arch == IF /\ LabelArchStable \in DOMAIN it.Requirements
                   /\ it.Requirements[LabelArchStable] =
                          NewRequirementIn({ArchitectureArm64})
                THEN ArchitectureArm64
                ELSE ArchitectureAmd64
        vnet == getVnetLabelValues(nc, e)
    IN IF vnet.panic # ""
       THEN Panicked(vnet.panic)
       ELSE Returned([ClusterName |-> opts.ClusterName,
                      Tags |-> nc.Tags,
                      Labels |-> Assign(<<labels, vnet.value>>),
                      Arch |-> arch,
                      KubernetesVersion |-> ""])

\* variant: the Vnet labels are merged first, so the caller's labels win
getStaticParametersVnetFirst(it, nc, labels, e, opts) ==
    LET arch == IF Compatible(it.Requirements,
                              NewRequirements(LabelArchStable, {ArchitectureArm64})) = ""
                THEN ArchitectureArm64
                ELSE ArchitectureAmd64
        vnet == getVnetLabelValues(nc, e)
    IN IF vnet.panic # ""
       THEN Panicked(vnet.panic)
       ELSE Returned([ClusterName |-> opts.ClusterName,
                      Tags |-> nc.Tags,
                      Labels |-> Assign(<<vnet.value, labels>>),
                      Arch |-> arch,
                      KubernetesVersion |-> ""])

\* The fields of StaticParameters copied verbatim from the provider and the
\* options (endpoint, CA bundle, GPU facts, identities, ...) take no part in any
\* decision of this file and are left out.
getStaticParameters(it, nc, labels, e, opts) ==
    LET arch == IF Compatible(it.Requirements,
                              NewRequirements(LabelArchStable, {ArchitectureArm64})) = ""
                THEN ArchitectureArm64
                ELSE ArchitectureAmd64
        vnet == getVnetLabelValues(nc, e)
    IN IF vnet.panic # ""
       THEN Panicked(vnet.panic)
       ELSE Returned([ClusterName |-> opts.ClusterName,
                      Tags |-> nc.Tags,
                      Labels |-> Assign(<<labels, vnet.value>>),
                      Arch |-> arch,
                      KubernetesVersion |-> ""])

----------------------------------------------------------------------------
(* createLaunchTemplate *)

NoReturn == [template |-> Nil, err |-> "", panic |-> ""]

\* script is what options.UserData.Script() returns: [text, err]; order is the
\* order the range inside mergeTags takes
createLaunchTemplate(options, script, order) ==
    IF script.err # ""
    THEN [template |-> Nil, err |-> script.err, panic |-> ""]
    ELSE LET azureTags ==
                 mergeTags(<<options.Tags,
                             (karpenterManagedTagKey :> options.ClusterName)>>, order)
         IN [template |-> Ptr([UserData |-> script.text,
                               ImageID |-> options.ImageID,
                               Tags |-> azureTags]),
             err |-> "",
             panic |-> ""]

----------------------------------------------------------------------------
(* Inputs *)

SubnetChars == {"/", "a", "b"}
SubnetIds == StringsUpTo(SubnetChars, MaxIdLen)
VnetGUIDs == {<<>>, <<"g">>}

IdleRequest ==
    /\ nodeClaim = [Labels |-> EmptyMap]
    /\ instanceType = [Requirements |-> EmptyMap]
    /\ additionalLabels = EmptyMap
    /\ ctxOptions = [ClusterName |-> ""]

IdleTemplate ==
    /\ pc = "idle"
    /\ staticParameters = Nil
    /\ templateParameters = Nil
    /\ userData = ""
    /\ calls = <<>>
    /\ ret = NoReturn

IdleMerge ==
    /\ tags = <<>>
    /\ result = Nil
    /\ previous = Nil
    /\ foldAcc = EmptyMap
    /\ foldIdx = 0

----------------------------------------------------------------------------
(* The Vnet label resolver on its own: every node class and environment *)

InitVnet ==
    /\ nodeClass \in [VnetSubnetID : {Nil} \cup {Ptr(id) : id \in SubnetIds},
                      Tags : {EmptyMap}]
    /\ env \in [AZURE_SUBNET_ID : SubnetIds, AZURE_VNET_GUID : VnetGUIDs]
    /\ vnetOut = NotCalled
    /\ IdleRequest
    /\ IdleTemplate
    /\ IdleMerge

CallGetVnetLabelValues ==
    /\ vnetOut = NotCalled
    /\ vnetOut' = getVnetLabelValues(nodeClass, env)
    /\ UNCHANGED <<requestVars, pc, templateVars, mergeVars>>

NextVnet == CallGetVnetLabelValues

SpecVnet == InitVnet /\ [][NextVnet]_vars

----------------------------------------------------------------------------
(* Properties of the Vnet label resolver, stated for SpecVnet *)

VnetCalled == vnetOut # NotCalled
Supplied == nodeClass.VnetSubnetID # Nil
SuppliedParts == Split(Deref(nodeClass.VnetSubnetID))

RECURSIVE JoinSlash(_)
JoinSlash(parts) ==
    IF Len(parts) = 1 THEN parts[1]
    ELSE parts[1] \o <<"/">> \o JoinSlash(Tail(parts))

\* the segments of id, stated without strings.Split: they hold no '/', and
\* joined by '/' they give id back
IsSplitOf(parts, id) ==
    /\ Len(parts) >= 1
    /\ \A i \in DOMAIN parts : \A j \in DOMAIN parts[i] : parts[i][j] # "/"
    /\ JoinSlash(parts) = id

\* the six labels the resolver is to derive from the segments of an identifier
ExpectedVnetLabels(parts, guid) ==
    [k \in VnetLabelKeys |->
        CASE k = vnetDataPlaneLabel -> <<"c","i","l","i","u","m">>
          [] k = vnetNetworkNameLabel -> parts[Len(parts) - 2]
          [] k = vnetSubnetNameLabel -> parts[Len(parts)]
          [] k = vnetSubscriptionIDLabel -> parts[3]
          [] k = vnetGUIDLabel -> guid
          [] k = vnetPodNetworkTypeLabel -> <<"o","v","e","r","l","a","y">>]

\* C2 (as claimed): with Spec.VnetSubnetID nil the identifier comes from
\* AZURE_SUBNET_ID and a well-formed one yields the six labels derived from it;
\* with Spec.VnetSubnetID set, the result does not depend on AZURE_SUBNET_ID.
C2_FallbackToEnvironment ==
    VnetCalled =>
        /\ (~Supplied /\ Len(Split(env.AZURE_SUBNET_ID)) >= 3) =>
              vnetOut = Returned(ExpectedVnetLabels(Split(env.AZURE_SUBNET_ID),
                                                    env.AZURE_VNET_GUID))
        /\ Supplied =>
              \A other \in SubnetIds :
                  vnetOut = getVnetLabelValues(nodeClass,
                                [env EXCEPT !.AZURE_SUBNET_ID = other])

\* C3 (as claimed): an identifier of fewer than 3 segments makes the resolver
\* fail with a ConfigurationError instead of panicking.
C3_ShortIdIsConfigurationError ==
    (VnetCalled /\ Supplied /\ Len(SuppliedParts) < 3) =>
        vnetOut.panic = "" /\ vnetOut.err = "ConfigurationError"

\* C3 (amended): an identifier of fewer than 3 segments makes the resolver panic
\* with an index out of range, no error value is ever returned, and every
\* outcome is either a panic or a mapping with exactly the six label keys.
C3_ShortIdPanics ==
    VnetCalled =>
        /\ (Supplied /\ Len(SuppliedParts) < 3) =>
              vnetOut.panic = IndexOutOfRange /\ vnetOut.value = EmptyMap
        /\ vnetOut.err = ""
        /\ \/ vnetOut.panic # "" /\ vnetOut.value = EmptyMap
           \/ vnetOut.panic = "" /\ DOMAIN vnetOut.value = VnetLabelKeys

C3_Witness ==
    /\ VnetCalled
    /\ Supplied
    /\ Deref(nodeClass.VnetSubnetID) = <<>>
    /\ vnetOut.panic = IndexOutOfRange

\* C7: for a supplied identifier of n >= 3 segments the resolver returns exactly
\* the six label keys: subscription = segment 2, network name = segment n-3,
\* subnet name = segment n-1 (zero-based), "cilium", "overlay", and the value of
\* AZURE_VNET_GUID.
C7_SixLabelsFromSegments ==
    (VnetCalled /\ Supplied) =>
        /\ IsSplitOf(SuppliedParts, Deref(nodeClass.VnetSubnetID))
        /\ Len(SuppliedParts) >= 3 =>
              /\ vnetOut.panic = ""
              /\ vnetOut.err = ""
              /\ DOMAIN vnetOut.value = VnetLabelKeys
              /\ Cardinality(DOMAIN vnetOut.value) = Cardinality(VnetLabelKeys)
              /\ vnetOut.value = ExpectedVnetLabels(SuppliedParts, env.AZURE_VNET_GUID)

C7_Witness ==
    /\ VnetCalled
    /\ Supplied
    /\ Len(SuppliedParts) >= 4
    /\ vnetOut.panic = ""
    /\ vnetOut.value[vnetNetworkNameLabel] # vnetOut.value[vnetSubscriptionIDLabel]
    /\ vnetOut.value[vnetGUIDLabel] = <<"g">>

----------------------------------------------------------------------------
(* The tag merger on its own: every sequence of at most MaxSources sources *)

TagKeys == {<<"a","/","b">>, <<"a","_","b">>, <<"c">>}
TagValues == {"1", "2"}
TagMaps == UNION {[D -> TagValues] : D \in SUBSET TagKeys}

\* map[string]*string back to map[string]string, to merge a result again
DerefValues(m) == [k \in DOMAIN m |-> Deref(m[k])]

InitMerge ==
    /\ tags \in UNION {[1..n -> TagMaps] : n \in 0..MaxSources}
    /\ result = Nil
    /\ previous = Nil
    /\ foldAcc = EmptyMap
    /\ foldIdx = 0
    /\ nodeClass = [VnetSubnetID |-> Nil, Tags |-> EmptyMap]
    /\ env = [AZURE_SUBNET_ID |-> <<>>, AZURE_VNET_GUID |-> <<>>]
    /\ vnetOut = NotCalled
    /\ IdleRequest
    /\ IdleTemplate

\* one call mergeTags(tags...)
CallMergeTags ==
    /\ \E order \in RangeOrders(Assign(tags)) :
          result' = Ptr(mergeTags(tags, order))
    /\ previous' = result
    /\ UNCHANGED <<requestVars, pc, templateVars, vnetOut, tags, foldAcc, foldIdx>>

\* the sources merged one by one, left to right: mergeTags(acc, tags[i])
FoldMergeTags ==
    /\ foldIdx < Len(tags)
    /\ LET pair == <<DerefValues(foldAcc), tags[foldIdx + 1]>>
       IN \E order \in RangeOrders(Assign(pair)) :
             foldAcc' = mergeTags(pair, order)
    /\ foldIdx' = foldIdx + 1
    /\ UNCHANGED <<requestVars, pc, templateVars, vnetOut, tags, result, previous>>

\* repeated calls of mergeTags on the same sources
NextMerge == CallMergeTags

SpecMerge == InitMerge /\ [][NextMerge]_vars

\* calls of mergeTags on all the sources, next to the one-by-one merge
NextFold == CallMergeTags \/ FoldMergeTags

SpecFold == InitMerge /\ [][NextFold]_vars

----------------------------------------------------------------------------
(* Properties of the tag merger, stated for SpecMerge and SpecFold *)

\* a key with every '/' turned into '_', stated without strings.ReplaceAll
Sanitized(key) ==
    [i \in 1..Len(key) |-> CASE key[i] = "/" -> "_" [] OTHER -> key[i]]

HasSlash(key) == \E i \in DOMAIN key : key[i] = "/"

InputKeys == UNION {DOMAIN tags[i] : i \in DOMAIN tags}

\* C5 (as claimed): later source wins: for two sources sharing a key k the merge
\* holds the second source's value at the sanitized k; no sources merge to the
\* empty mapping; merging the sources one by one, left to right, gives what
\* merging them all at once gives.
C5_LaterWinsAssociative ==
    /\ (result # Nil /\ Len(tags) = 0) => Deref(result) = EmptyMap
    /\ (result # Nil /\ Len(tags) = 2) =>
          \A k \in (DOMAIN tags[1]) \cap (DOMAIN tags[2]) :
              /\ Sanitized(k) \in DOMAIN Deref(result)
              /\ Deref(result)[Sanitized(k)] = Ptr(tags[2][k])
    /\ (result # Nil /\ foldIdx = Len(tags)) => foldAcc = Deref(result)

\* C6: no key returned by mergeTags holds a '/', and the keys returned are
\* exactly the keys of the sources with every '/' replaced by '_'.
C6_KeysSanitized ==
    result # Nil =>
        /\ \A k \in DOMAIN Deref(result) : ~HasSlash(k)
        /\ DOMAIN Deref(result) = {Sanitized(k) : k \in InputKeys}
        /\ \A k \in DOMAIN Deref(result) : Deref(result)[k] # Nil

C6_Witness ==
    /\ result # Nil
    /\ Len(tags) = 2
    /\ <<"a","/","b">> \in DOMAIN tags[1]
    /\ <<"c">> \in DOMAIN tags[2]
    /\ DOMAIN Deref(result) = {<<"a","_","b">>, <<"c">>}

\* C10 (as claimed): two calls of mergeTags on the same sources return the same
\* mapping, also when two keys of the sources sanitize to the same key.
C10_Deterministic ==
    (result # Nil /\ previous # Nil) => result = previous

----------------------------------------------------------------------------
(* GetTemplate: one provisioning request *)

RequestSubnetIds == {<<"a">>, <<"/","/","a","/","b">>}
ClusterNames == {"c1"}
LabelKeys == {"app", vnetNetworkNameLabel}
NodeClaimLabelMaps == UNION {[D -> {<<"x">>}] : D \in SUBSET LabelKeys}
AdditionalLabelMaps == UNION {[D -> {<<"y">>}] : D \in SUBSET LabelKeys}
ArchRequirements ==
    {EmptyMap} \cup
    {(LabelArchStable :> r) :
        r \in [complement : BOOLEAN,
               values : SUBSET {ArchitectureAmd64, ArchitectureArm64}]}

\* what the collaborators may answer
VersionOutcomes == {[version |-> "1.29", err |-> ""], [version |-> "", err |-> "UpstreamError"]}
ScriptOutcomes == {[text |-> "#!boot", err |-> ""], [text |-> "", err |-> "RenderError"]}
ResolverTagKeys == {karpenterManagedTagKey, ReplaceAll(karpenterManagedTagKey), <<"c">>}
ResolverTagMaps == UNION {[D -> {"other"}] : D \in SUBSET ResolverTagKeys}
ResolverClusterNames == {"c1", "c2"}
ResolveOutcomes ==
    {[err |-> "ResolutionError", Tags |-> EmptyMap, ClusterName |-> "", ImageID |-> ""]}
    \cup [err : {""}, Tags : ResolverTagMaps, ClusterName : ResolverClusterNames,
          ImageID : {"image-1"}]

Init ==
    /\ nodeClass \in [VnetSubnetID : {Nil} \cup {Ptr(id) : id \in RequestSubnetIds},
                      Tags : {EmptyMap, (<<"c">> :> "other")}]
    /\ env \in [AZURE_SUBNET_ID : {<<>>, <<"/","/","a","/","b">>},
                AZURE_VNET_GUID : VnetGUIDs]
    /\ nodeClaim \in [Labels : NodeClaimLabelMaps]
    /\ additionalLabels \in AdditionalLabelMaps
    /\ instanceType \in [Requirements : ArchRequirements]
    /\ ctxOptions \in [ClusterName : ClusterNames]
    /\ pc = "getStaticParameters"
    /\ staticParameters = Nil
    /\ templateParameters = Nil
    /\ userData = ""
    /\ calls = <<>>
    /\ ret = NoReturn
    /\ vnetOut = NotCalled
    /\ IdleMerge

Called(fn, err) == [fn |-> fn, err |-> err]

\* GetTemplate, line 91: staticParameters := p.getStaticParameters(...)
BuildStaticParameters ==
    /\ pc = "getStaticParameters"
    /\ LET out == getStaticParameters(instanceType, nodeClass,
                      Assign(<<nodeClaim.Labels, additionalLabels>>), env, ctxOptions)
       IN IF out.panic # ""
          THEN /\ pc' = "panicked"
               /\ ret' = [ret EXCEPT !.panic = out.panic]
               /\ UNCHANGED staticParameters
          ELSE /\ pc' = "KubeServerVersion"
               /\ staticParameters' = Ptr(out.value)
               /\ UNCHANGED ret
    /\ UNCHANGED <<requestVars, templateParameters, userData, calls, vnetOut, mergeVars>>

\* GetTemplate, lines 92-96: the version lookup
KubeServerVersion ==
    /\ pc = "KubeServerVersion"
    /\ \E out \in VersionOutcomes :
          /\ calls' = Append(calls, Called("KubeServerVersion", out.err))
          /\ IF out.err # ""
             THEN /\ ret' = [template |-> Nil, err |-> out.err, panic |-> ""]
                  /\ pc' = "returned"
                  /\ UNCHANGED staticParameters
             ELSE /\ staticParameters' =
                        Ptr([Deref(staticParameters) EXCEPT !.KubernetesVersion = out.version])
                  /\ pc' = "Resolve"
                  /\ UNCHANGED ret
    /\ UNCHANGED <<requestVars, templateParameters, userData, vnetOut, mergeVars>>

\* variant: the resolver's error is not checked and the request goes on
ResolveIgnoringError ==
    /\ pc = "Resolve"
    /\ \E out \in ResolveOutcomes :
          /\ calls' = Append(calls, Called("Resolve", out.err))
          /\ templateParameters' =
                Ptr([Tags |-> out.Tags, ClusterName |-> out.ClusterName,
                     ImageID |-> out.ImageID])
          /\ pc' = "createLaunchTemplate"
          /\ UNCHANGED ret
    /\ UNCHANGED <<requestVars, staticParameters, userData, vnetOut, mergeVars>>

\* GetTemplate, lines 97-100: the image-family resolver
Resolve ==
    /\ pc = "Resolve"
    /\ \E out \in ResolveOutcomes :
          /\ calls' = Append(calls, Called("Resolve", out.err))
          /\ IF out.err # ""
             THEN /\ ret' = [template |-> Nil, err |-> out.err, panic |-> ""]
                  /\ pc' = "returned"
                  /\ UNCHANGED templateParameters
             ELSE /\ templateParameters' =
                        Ptr([Tags |-> out.Tags, ClusterName |-> out.ClusterName,
                             ImageID |-> out.ImageID])
                  /\ pc' = "createLaunchTemplate"
                  /\ UNCHANGED ret
    /\ UNCHANGED <<requestVars, staticParameters, userData, vnetOut, mergeVars>>

\* GetTemplate, lines 101-106, with createLaunchTemplate, lines 139-154
CreateLaunchTemplate ==
    /\ pc = "createLaunchTemplate"
    /\ LET options == Deref(templateParameters)
           merged == Assign(<<options.Tags,
                              (karpenterManagedTagKey :> options.ClusterName)>>)
       IN \E script \in ScriptOutcomes, order \in RangeOrders(merged) :
             /\ ret' = createLaunchTemplate(options, script, order)
             /\ userData' = script.text
             /\ calls' = IF script.err # ""
                         THEN Append(calls, Called("Script", script.err))
                         ELSE calls \o <<Called("Script", ""), Called("mergeTags", "")>>
    /\ pc' = "returned"
    /\ UNCHANGED <<requestVars, staticParameters, templateParameters, vnetOut, mergeVars>>

Next == BuildStaticParameters \/ KubeServerVersion \/ Resolve \/ CreateLaunchTemplate

Spec == Init /\ [][Next]_vars

----------------------------------------------------------------------------
(* Properties of GetTemplate, stated for Spec *)

StepOrder == <<"KubeServerVersion", "Resolve", "Script", "mergeTags">>

Failed == \E i \in DOMAIN calls : calls[i].err # ""

\* C1: the collaborators run in the order version lookup, resolver, boot-script
\* render, tag merge; nothing runs after a step that failed; a failing request
\* returns that step's error with a nil Template; a Template is returned only
\* when all four steps succeeded, and then it is completely filled.
C1_ShortCircuit ==
    /\ Len(calls) <= Len(StepOrder)
    /\ \A i \in DOMAIN calls : calls[i].fn = StepOrder[i]
    /\ \A i \in DOMAIN calls : calls[i].err # "" => i = Len(calls)
    /\ pc # "returned" => ret.template = Nil /\ ret.err = ""
    /\ pc = "returned" =>
          /\ Failed => ret.template = Nil /\ ret.err = calls[Len(calls)].err
          /\ (ret.template = Nil) <=> (ret.err # "")
          /\ ret.template # Nil =>
                /\ ~Failed
                /\ Len(calls) = Len(StepOrder)
                /\ Deref(ret.template).UserData = "#!boot"
                /\ Deref(ret.template).ImageID = Deref(templateParameters).ImageID
                /\ Sanitized(karpenterManagedTagKey) \in DOMAIN Deref(ret.template).Tags

C1_Witness ==
    /\ pc = "returned"
    /\ ret.err = "ResolutionError"
    /\ ret.template = Nil
    /\ Len(calls) = 2

\* C4 (as claimed): the returned Template maps the sanitized managed-by key to
\* the cluster name, whatever the resolver's tags hold under the unsanitized or
\* the already sanitized key.
C4_ManagedTagWins ==
    (pc = "returned" /\ ret.template # Nil) =>
        LET azureTags == Deref(ret.template).Tags
        IN /\ Sanitized(karpenterManagedTagKey) \in DOMAIN azureTags
           /\ azureTags[Sanitized(karpenterManagedTagKey)] =
                  Ptr(Deref(templateParameters).ClusterName)

\* the instance type allows arm64 for the architecture label, or says nothing
\* about the architecture
AllowsArm64(requirements) ==
    \/ LabelArchStable \notin DOMAIN requirements
    \/ LET r == requirements[LabelArchStable]
       IN IF r.complement THEN "arm64" \notin r.values ELSE "arm64" \in r.values

\* C8: Arch is arm64 exactly when the instance type's requirements are compatible
\* with "architecture In {arm64}", and amd64 otherwise: amd64 for an instance
\* type advertising only amd64, arm64 for one advertising amd64 and arm64.
C8_ArchFromCompatibility ==
    staticParameters # Nil =>
        LET arch == Deref(staticParameters).Arch
            requirements == instanceType.Requirements
        IN /\ arch \in {"amd64", "arm64"}
           /\ (arch = "arm64") <=> AllowsArm64(requirements)
           /\ (arch = "amd64") <=> ~AllowsArm64(requirements)
           /\ requirements = (LabelArchStable :> [complement |-> FALSE, values |-> {"amd64"}])
                 => arch = "amd64"
           /\ requirements = (LabelArchStable :> [complement |-> FALSE,
                                                  values |-> {"amd64", "arm64"}])
                 => arch = "arm64"

C8_Witness ==
    /\ staticParameters # Nil
    /\ LabelArchStable \in DOMAIN instanceType.Requirements
    /\ instanceType.Requirements[LabelArchStable] =
           [complement |-> FALSE, values |-> {"amd64", "arm64"}]
    /\ Deref(staticParameters).Arch = "arm64"

\* C9: the Labels handed to the resolver are node-claim labels, overridden by
\* the additional labels, overridden by the six Vnet labels; no other key.
C9_LabelPrecedence ==
    staticParameters # Nil =>
        LET labels == Deref(staticParameters).Labels
            vnetLabels == ExpectedVnetLabels(SuppliedParts, env.AZURE_VNET_GUID)
        IN /\ DOMAIN labels =
                  VnetLabelKeys \cup (DOMAIN additionalLabels) \cup (DOMAIN nodeClaim.Labels)
           /\ \A key \in DOMAIN labels :
                 labels[key] =
                     IF key \in VnetLabelKeys THEN vnetLabels[key]
                     ELSE IF key \in DOMAIN additionalLabels THEN additionalLabels[key]
                     ELSE nodeClaim.Labels[key]

C9_Witness ==
    /\ staticParameters # Nil
    /\ DOMAIN nodeClaim.Labels = LabelKeys
    /\ DOMAIN additionalLabels = LabelKeys
    /\ Deref(staticParameters).Labels["app"] = <<"y">>
    /\ Deref(staticParameters).Labels[vnetNetworkNameLabel] = <<>>

====
